---- MODULE Spec2Model ----
(***************************************************************************)
(* TrashGuard: the CKAN ingestion pipeline load_and_process_data           *)
(* (modules/data_handler.py), its st.cache_data(ttl=CACHE_TTL) memoisation *)
(* and the script run of app.py that calls it; the report submission       *)
(* handler and the admin panel's delete flow of app.py, with the database  *)
(* and storage functions they call (modules/db_handler.py,                 *)
(* modules/storage_handler.py).                                            *)
(*                                                                         *)
(* Representation.                                                         *)
(*   - Time is in seconds.  A parsed timestamp is a number of seconds on   *)
(*     the UTC axis; a timezone-naive one is a wall-clock reading that the *)
(*     code compares with the UTC wall clock (data_handler.py:88-91).      *)
(*   - A coordinate is a float.  Finite floats are kept exactly, as an     *)
(*     integer number of 1/CoordScale degrees; NaN, +inf and -inf are kept *)
(*     as such.                                                            *)
(*   - The records of a response are a list of runs: a run is one record   *)
(*     and the number n of consecutive copies of it in the list.           *)
(***************************************************************************)
EXTENDS Integers, Sequences, FiniteSets, TLC

VARIABLES
    now,        \* the wall clock, seconds (datetime.now(timezone.utc))
    upstream,   \* what the CKAN endpoint answers to a query issued now
    cache,      \* st.cache_data's store of load_and_process_data: key -> entry
    last,       \* the last completed call of the cached function
    callers,    \* the script runs (sessions) inside the cached call, by thread
    compute_lock, \* st.cache_data's lock around the computation of a miss
    table,      \* the ids of the reports with a record in the reports table
    bucket,     \* the ids of the reports whose photo is in the GCS bucket
    submission, \* the last run of the "Submit Report" handler: its calls
    session_state, \* st.session_state: confirm_delete_<id> of each report
    admin       \* the admin panel: selection, rendered buttons, last run

threadVars == <<callers, compute_lock>>

reportVars == <<table, bucket, submission, session_state, admin>>

vars ==
    <<now, upstream, cache, last, callers, compute_lock,
      table, bucket, submission, session_state, admin>>

----------------------------------------------------------------------------
(* Bounds of the model *)

MaxRuns == 3
MaxTicks == 3
MaxReports == 3

----------------------------------------------------------------------------
(* Program constants *)

CACHE_TTL == 6 * 60 * 60
max_weight == 15
Resolution == 500
WindowDays == 90
CoordScale == 10 * 1000
DAY == 24 * 60 * 60

----------------------------------------------------------------------------
(* Floats *)

Fin(v) == [c |-> "fin", v |-> v]
NaN == [c |-> "nan", v |-> 0]
PosInf == [c |-> "inf", v |-> 1]
NegInf == [c |-> "inf", v |-> -1]

IsFinite(f) == f.c = "fin"

(* Raw JSON values of a coordinate field. *)
Num(v) == [k |-> "num", v |-> v]
Text == [k |-> "text", v |-> 0]
Null == [k |-> "null", v |-> 0]
InfText(s) == [k |-> "inf", v |-> s]

(* Raw values of the "Date Created" field. *)
BadDate == [k |-> "bad", t |-> 0]
Naive(t) == [k |-> "naive", t |-> t]
Aware(t) == [k |-> "utc", t |-> t]

Min(a, b) == IF a <= b THEN a ELSE b

----------------------------------------------------------------------------
(* pandas / numpy operations used by the pipeline *)

(* pd.to_datetime(value, errors='coerce') on one value: an unparsable      *)
(* text becomes NaT, a parsable one a timestamp that keeps its zone.       *)
NaT == [c |-> "nat", tz |-> "none", t |-> 0]
to_datetime(raw) ==
    IF raw.k = "bad" THEN NaT ELSE [c |-> "ts", tz |-> raw.k, t |-> raw.t]

(* pd.to_numeric(value, errors='coerce') on one value: a number stays, the *)
(* texts "inf" / "-inf" parse to the infinities, any other text and null   *)
(* become NaN.                                                             *)
to_numeric(raw) ==
    CASE raw.k = "num" -> Fin(raw.v)
      [] raw.k = "inf" -> (IF raw.v > 0 THEN PosInf ELSE NegInf)
      [] OTHER -> NaN

(* pd.isna on a float: NaN only; the infinities are not missing values.    *)
isna(f) == f.c = "nan"

(* Round half to even of num/den, den > 0 (numpy.round).                   *)
RoundHalfEven(num, den) ==
    LET q == num \div den
        r == num - q * den
    IN  IF 2 * r < den THEN q
        ELSE IF 2 * r > den THEN q + 1
        ELSE IF q % 2 = 0 THEN q ELSE q + 1

TileIndexFloor(f) ==
    IF IsFinite(f) THEN Fin((f.v * Resolution) \div CoordScale) ELSE f

(* np.round(x * 500) for a coordinate x: a whole number of tiles.          *)
TileIndex(f) ==
    IF IsFinite(f) THEN Fin(RoundHalfEven(f.v * Resolution, CoordScale)) ELSE f

(* t / 500 for a tile index t: the coordinate of the tile's anchor.        *)
TileCenter(k) ==
    IF IsFinite(k) THEN Fin((k.v * CoordScale) \div Resolution) ELSE k

(* Order of floats without NaN, and of tiles (tuples compare by items).    *)
FloatLt(a, b) ==
    LET ra == IF IsFinite(a) THEN 0 ELSE a.v
        rb == IF IsFinite(b) THEN 0 ELSE b.v
    IN  \/ ra < rb
        \/ ra = rb /\ IsFinite(a) /\ IsFinite(b) /\ a.v < b.v

TileLt(x, y) ==
    \/ FloatLt(x[1], y[1])
    \/ x[1] = y[1] /\ FloatLt(x[2], y[2])

RECURSIVE SortTiles(_)
SortTiles(S) ==
    IF S = {} THEN <<>>
    ELSE LET m == CHOOSE x \in S : \A y \in S \ {x} : TileLt(x, y)
         IN  <<m>> \o SortTiles(S \ {m})

(* len(df): the number of rows of a frame kept as runs.                    *)
RECURSIVE RowCount(_)
RowCount(df) ==
    IF df = <<>> THEN 0 ELSE Head(df).n + RowCount(Tail(df))

----------------------------------------------------------------------------
(* load_and_process_data, stage by stage.  A result records what the call  *)
(* returns (ret: "none" for (None, None), "value" for (df, hotspots),      *)
(* "raise" for an exception that leaves the function), the line of the     *)
(* return statement or of the raising statement (site), whether the        *)
(* request was issued (fetched), and the two outputs.                      *)

Result(ret, site, fetched, df, heat) ==
    [ret |-> ret, site |-> site, fetched |-> fetched, df |-> df, heat |-> heat]

NoneNone(site, fetched) == Result("none", site, fetched, <<>>, <<>>)
EmptyPair(site) == Result("value", site, TRUE, <<>>, <<>>)
Raises(site) == Result("raise", site, TRUE, <<>>, <<>>)

(* Lines 43-49: requests.get, raise_for_status and response.json raise on  *)
(* a network error, a timeout, a non-2xx status and a body that is not     *)
(* JSON.                                                                   *)
FetchRaisesNoStatusCheck(resp) ==
    resp.kind \in {"network_error", "timeout", "bad_json"}

FetchRaises(resp) ==
    resp.kind \in {"network_error", "timeout", "http_error", "bad_json"}

(* Line 68: pd.DataFrame(records).  One frame row per record: here one     *)
(* entry per run of equal records.                                         *)
DataFrame(records) ==
    [i \in DOMAIN records |->
        [date |-> records[i].row.date, lat |-> records[i].row.lat,
         lon |-> records[i].row.lon, n |-> records[i].n]]

(* Line 78: the created_datetime column.                                   *)
WithCreated(df) ==
    [i \in DOMAIN df |->
        [created_datetime |-> to_datetime(df[i].date),
         lat |-> df[i].lat, lon |-> df[i].lon, n |-> df[i].n]]

(* Line 80: df.dropna(subset=['created_datetime']).                        *)
DropNaT(df) ==
    LET Keep(e) == e.created_datetime.c # "nat" IN SelectSeq(df, Keep)

(* The zones of the parsed column.  With both naive and aware values       *)
(* pd.to_datetime gives an object column, which has no .dt accessor: line  *)
(* 89 raises AttributeError.                                               *)
Zones(df) == {df[i].created_datetime.tz : i \in DOMAIN df}

(* Line 88. *)
CutoffDate(clock) == clock - WindowDays * DAY

InWindowStrict(ts, cutoff_date) == ts.t > cutoff_date

(* Line 91: df[df['created_datetime'] >= cutoff_date].                     *)
InWindow(ts, cutoff_date) == ts.t >= cutoff_date

WindowFilter(df, cutoff_date) ==
    LET Keep(e) == InWindow(e.created_datetime, cutoff_date)
    IN  SelectSeq(df, Keep)

(* Lines 107-108: both columns through pd.to_numeric.                      *)
NumericCoords(df) ==
    [i \in DOMAIN df |->
        [created_datetime |-> df[i].created_datetime,
         Latitude |-> to_numeric(df[i].lat),
         Longitude |-> to_numeric(df[i].lon), n |-> df[i].n]]

(* Line 110: df.dropna(subset=[lat_col, lon_col]).                         *)
DropNaCoords(df) ==
    LET Keep(e) == ~isna(e.Latitude) /\ ~isna(e.Longitude)
    IN  SelectSeq(df, Keep)

(* Lines 119-121: the tile column.                                         *)
TileOf(e) == <<TileIndex(e.Latitude), TileIndex(e.Longitude)>>

RECURSIVE GroupSizeLeadingRows(_, _)
GroupSizeLeadingRows(df, tile) ==
    IF df = <<>> \/ TileOf(Head(df)) # tile THEN 0
    ELSE Head(df).n + GroupSizeLeadingRows(Tail(df), tile)

(* Line 122: df.groupby("tile").size() for one tile.                       *)
RECURSIVE GroupSize(_, _)
GroupSize(df, tile) ==
    IF df = <<>> THEN 0
    ELSE (IF TileOf(Head(df)) = tile THEN Head(df).n ELSE 0)
         + GroupSize(Tail(df), tile)

WeightUncapped(cnt) == cnt

(* Line 127: the weight of a tile with cnt rows.                           *)
Weight(cnt) == Min(cnt, max_weight)

HotspotsOfFiniteTiles(df) ==
    LET tiles == SortTiles({k \in {TileOf(df[i]) : i \in DOMAIN df} :
                               IsFinite(k[1]) /\ IsFinite(k[2])})
    IN  [j \in DOMAIN tiles |->
            [location |-> [lat |-> TileCenter(tiles[j][1]),
                           lng |-> TileCenter(tiles[j][2])],
             weight |-> Weight(GroupSize(df, tiles[j]))]]

HotspotsPerRow(df) ==
    [j \in DOMAIN df |->
        [location |-> [lat |-> TileCenter(TileOf(df[j])[1]),
                       lng |-> TileCenter(TileOf(df[j])[2])],
         weight |-> Weight(df[j].n)]]

(* Lines 122-129: one hotspot per group, groups in key order.              *)
Hotspots(df) ==
    LET tiles == SortTiles({TileOf(df[i]) : i \in DOMAIN df})
    IN  [j \in DOMAIN tiles |->
            [location |-> [lat |-> TileCenter(tiles[j][1]),
                           lng |-> TileCenter(tiles[j][2])],
             weight |-> Weight(GroupSize(df, tiles[j]))]]

(* Lines 72-100: date conversion and filtering of a non-empty frame.       *)
DateStage(df0, cols, clock) ==
    IF "Date Created" \notin cols THEN [out |-> "return", res |-> NoneNone(76, TRUE)]
    ELSE
    LET parsed == DropNaT(WithCreated(df0))
        kept == WindowFilter(parsed, CutoffDate(clock))
    IN  IF parsed = <<>> THEN [out |-> "return", res |-> EmptyPair(86)]
        ELSE IF Cardinality(Zones(parsed)) > 1
             THEN [out |-> "return", res |-> NoneNone(100, TRUE)]
        ELSE IF kept = <<>> THEN [out |-> "return", res |-> EmptyPair(95)]
        ELSE [out |-> "next", df |-> kept]

(* Lines 102-136: coordinate cleaning and the grid.                        *)
CoordStage(df1, cols) ==
    IF ~({"Latitude", "Longitude"} \subseteq cols) THEN NoneNone(106, TRUE)
    ELSE
    LET df == DropNaCoords(NumericCoords(df1))
    IN  IF df = <<>> THEN EmptyPair(115)
        ELSE Result("value", 131, TRUE, df, Hotspots(df))

(* Lines 28-136: the request and the processing of its answer.             *)
FetchAndProcess(resp, clock) ==
    IF FetchRaises(resp) THEN NoneNone(66, TRUE)
    ELSE IF resp.kind = "not_success" THEN NoneNone(56, TRUE)
    ELSE IF resp.shape = "list" /\ resp.records = <<>> THEN EmptyPair(61)
    ELSE IF resp.shape # "list" THEN Raises(68)
    ELSE
    LET dates == DateStage(DataFrame(resp.records), resp.cols, clock)
    IN  IF dates.out = "return" THEN dates.res
        ELSE CoordStage(dates.df, resp.cols)

LoadWithoutIdCheck(resource_id, resp, clock) == FetchAndProcess(resp, clock)

(* Lines 16-136.  Line 24, `if not resource_id`: an empty (or missing)     *)
(* resource id returns before the request.                                 *)
load_and_process_data(resource_id, resp, clock) ==
    IF resource_id = "" THEN NoneNone(26, FALSE)
    ELSE FetchAndProcess(resp, clock)

----------------------------------------------------------------------------
(* The cached function: @st.cache_data(ttl=CACHE_TTL), data_handler.py:15. *)
(* The store maps the argument to the pickled return value and the time it *)
(* was stored; an entry is served while it is younger than the ttl; a call *)
(* that raises stores nothing.                                             *)

Rids == {"", "A", "B"}

Value(res) == [ret |-> res.ret, df |-> res.df, heat |-> res.heat]

(* An entry: the stored value and the time it was stored.  `fetched` is    *)
(* history kept for the properties: whether the run that stored the entry  *)
(* issued the request.                                                     *)
NoEntry ==
    [present |-> FALSE, at |-> 0, fetched |-> FALSE,
     val |-> Value(NoneNone(0, FALSE))]

IsLiveForever(entry, clock) == entry.present

IsLive(entry, clock) == entry.present /\ clock - entry.at < CACHE_TTL

StoredUnlessEmpty(entry, res, clock) ==
    IF res.ret = "raise" \/ res.df = <<>> THEN entry
    ELSE [present |-> TRUE, at |-> clock, fetched |-> res.fetched,
          val |-> Value(res)]

StoredFieldwise(entry, res, clock) ==
    IF res.ret = "raise" THEN entry
    ELSE [present |-> TRUE, at |-> clock, fetched |-> res.fetched,
          val |-> [ret |-> res.ret, df |-> res.df,
                   heat |-> IF entry.present THEN entry.val.heat
                            ELSE res.heat]]

(* What a miss leaves in the store. *)
Stored(entry, res, clock) ==
    IF res.ret = "raise" THEN entry
    ELSE [present |-> TRUE, at |-> clock, fetched |-> res.fetched,
          val |-> Value(res)]

(* What a hit returns: the stored value; the function body does not run.   *)
Replayed(entry) == Result(entry.val.ret, 0, FALSE, entry.val.df, entry.val.heat)

NoCall ==
    [rid |-> "-", at |-> 0, hit |-> FALSE, found |-> NoEntry,
     res |-> NoneNone(0, FALSE)]

CallWithOneSharedEntry(rid, resp) ==
    LET entry == cache["A"]
        hit == IsLive(entry, now)
        res == IF hit THEN Replayed(entry)
               ELSE load_and_process_data(rid, resp, now)
    IN  /\ cache' = IF hit THEN cache
                    ELSE [cache EXCEPT !["A"] = Stored(entry, res, now)]
        /\ last' = [rid |-> rid, at |-> now, hit |-> hit, found |-> entry,
                    res |-> res]
        /\ upstream' = IF res.fetched THEN resp ELSE upstream
        /\ UNCHANGED <<now, threadVars, reportVars>>

(* One call load_and_process_data(rid) through the decorator; resp is the  *)
(* answer the endpoint gives if the call issues the request.               *)
Call(rid, resp) ==
    LET entry == cache[rid]
        hit == IsLive(entry, now)
        res == IF hit THEN Replayed(entry)
               ELSE load_and_process_data(rid, resp, now)
    IN  /\ cache' = IF hit THEN cache
                    ELSE [cache EXCEPT ![rid] = Stored(entry, res, now)]
        /\ last' = [rid |-> rid, at |-> now, hit |-> hit, found |-> entry,
                    res |-> res]
        /\ upstream' = IF res.fetched THEN resp ELSE upstream
        /\ UNCHANGED <<now, threadVars, reportVars>>

----------------------------------------------------------------------------
(* The inputs of the model *)

Row(date, lat, lon) == [date |-> date, lat |-> lat, lon |-> lon]
Run(row, n) == [row |-> row, n |-> n]

SJ1 == Row(Naive(-DAY), Num(373382), Num(-1218863))
SJ2 == Row(Naive(-DAY), Num(373383), Num(-1218864))
Old == Row(Naive(-(200 * DAY)), Num(400000), Num(-700000))
Edge == Row(Naive(-(WindowDays * DAY)), Num(400000), Num(-700000))
BadTs == Row(BadDate, Num(373382), Num(-1218863))
BadLat == Row(Naive(-DAY), Text, Num(-1218863))
NullLon == Row(Naive(-DAY), Num(373382), Null)
InfLat == Row(Naive(-DAY), InfText(1), Num(-1218863))
AwareRow == Row(Aware(-DAY), Num(373382), Num(-1218863))
HalfTile == Row(Naive(-DAY), Num(10), Num(30))

Rows == {SJ1, SJ2, Old, Edge, BadTs, BadLat, NullLon, InfLat, AwareRow, HalfTile}

Runs == {Run(r, 1) : r \in Rows} \cup {Run(SJ1, max_weight + 1)}

AllCols == {"Date Created", "Latitude", "Longitude"}
Schemas == {AllCols} \cup {AllCols \ {c} : c \in AllCols}

Ok(records, cols) ==
    [kind |-> "ok", shape |-> "list", cols |-> cols, records |-> records]
Failed(kind) == [kind |-> kind, shape |-> "list", cols |-> AllCols, records |-> <<>>]
(* A "records" value that is not a list of objects (a number, a text): it  *)
(* is truthy at line 59 and pd.DataFrame raises on it at line 68.          *)
Malformed == [kind |-> "ok", shape |-> "scalar", cols |-> {}, records |-> <<>>]

FetchFailures ==
    {Failed(k) : k \in {"network_error", "timeout", "http_error", "bad_json",
                        "not_success"}}

Batches == UNION {[1..n -> Runs] : n \in 1..MaxRuns}

Upstreams ==
    FetchFailures \cup {Malformed, Ok(<<>>, AllCols)}
    \cup {Ok(b, cols) : b \in Batches, cols \in Schemas}

NowChoices == {0, 1, DAY}

(* The answers the cache specification draws from: one of each outcome.    *)
CacheUpstreams ==
    {Failed("http_error"), Malformed, Ok(<<>>, AllCols),
     Ok(<<Run(Old, 1)>>, AllCols), Ok(<<Run(BadTs, 1)>>, AllCols),
     Ok(<<Run(BadLat, 1)>>, AllCols),
     Ok(<<Run(SJ1, 1)>>, AllCols)}

TickSeconds == CACHE_TTL \div 2

----------------------------------------------------------------------------
(* The program: calls of the cached function as the clock advances.  In    *)
(* Spec `upstream` is the answer to the last request issued.               *)

NoAnswer == [kind |-> "none", shape |-> "list", cols |-> {}, records |-> <<>>]

(* The sessions of the app: each is a thread that runs the script.         *)
Threads == {"s1", "s2"}

(* A session that has not reached line 65 of app.py. *)
NoThread ==
    [pc |-> "idle", hit |-> FALSE, resp |-> NoAnswer, at |-> 0,
     res |-> NoneNone(0, FALSE)]

NoThreads ==
    /\ callers = [t \in Threads |-> NoThread]
    /\ compute_lock = [enabled |-> TRUE, holder |-> "none"]

(* The reports: a report is known by its report_id.                        *)
ReportIds == 1..MaxReports

NoSubmission ==
    [n |-> 0, id |-> 0, ready |-> TRUE, upload |-> "not_called",
     insert |-> "not_called", delete |-> "not_called"]

(* No report selected ("<Select Report>" is 0), no button rendered.  armed  *)
(* is history kept for the properties: the reports whose last click among  *)
(* "Delete Report", "Cancel" and a completed "YES, DELETE" is the first.   *)
NoAdminRun ==
    [selected |-> 0, rendered |-> {}, click |-> "none", metadata |-> "not_called",
     photo |-> "not_called", rerun |-> FALSE, armed |-> {}]

NoSessionState == [id \in ReportIds |-> "absent"]

NoReports ==
    /\ table = {}
    /\ bucket = {}
    /\ submission = NoSubmission
    /\ session_state = NoSessionState
    /\ admin = NoAdminRun

Init ==
    /\ now = 0
    /\ upstream = NoAnswer
    /\ cache = [r \in Rids |-> NoEntry]
    /\ last = NoCall
    /\ NoThreads
    /\ NoReports

Tick ==
    /\ now + TickSeconds <= MaxTicks * TickSeconds
    /\ now' = now + TickSeconds
    /\ UNCHANGED <<upstream, cache, last, threadVars, reportVars>>

Invoke == \E rid \in Rids, resp \in CacheUpstreams : Call(rid, resp)

Next == Tick \/ Invoke

Spec == Init /\ [][Next]_vars

(* One call of the function on a cold store, over every input.             *)
InitPipeline ==
    /\ now \in NowChoices
    /\ upstream \in Upstreams
    /\ cache = [r \in Rids |-> NoEntry]
    /\ last = NoCall
    /\ NoThreads
    /\ NoReports

FirstCall == last = NoCall /\ \E rid \in {"", "A"} : Call(rid, upstream)

NextPipeline == FirstCall

SpecPipeline == InitPipeline /\ [][NextPipeline]_vars

----------------------------------------------------------------------------
(* Two sessions run the script at once: each calls the cached function at  *)
(* app.py:65 with CKAN_RID.  The steps of a call are those of              *)
(* st.cache_data: read the store; on a miss take the function's compute    *)
(* lock and read again; run the function body (the request, then the       *)
(* processing); write the store; return.  Streamlit versions without the   *)
(* compute lock run the body at once after the first read: `enabled` says  *)
(* which of the two the deployment has.                                    *)

CKAN_RID == "A"

(* app.py:64-70: what the script holds after the call: the returned pair,  *)
(* or (None, None) when the call raised.                                   *)
AppPair(res) ==
    IF res.ret = "raise" THEN [ret |-> "none", df |-> <<>>, heat |-> <<>>]
    ELSE Value(res)

InitConcurrent ==
    /\ now = 0
    /\ upstream = NoAnswer
    /\ cache = [r \in Rids |-> NoEntry]
    /\ last = NoCall
    /\ callers = [t \in Threads |-> NoThread]
    /\ \E b \in BOOLEAN : compute_lock = [enabled |-> b, holder |-> "none"]
    /\ NoReports

(* The call starts: the first read of the store. *)
Enter(t) ==
    /\ callers[t].pc = "idle"
    /\ callers' = [callers EXCEPT ![t] =
          IF IsLive(cache[CKAN_RID], now)
          THEN [@ EXCEPT !.pc = "done", !.hit = TRUE, !.at = now,
                         !.res = Replayed(cache[CKAN_RID])]
          ELSE [@ EXCEPT !.pc = "miss"]]
    /\ UNCHANGED <<now, upstream, cache, last, compute_lock, reportVars>>

(* The miss path: with the compute lock, wait for it, take it and read the *)
(* store again; a value found now is returned and the lock released.       *)
Recheck(t) ==
    /\ callers[t].pc = "miss"
    /\ compute_lock.enabled => compute_lock.holder = "none"
    /\ IF compute_lock.enabled /\ IsLive(cache[CKAN_RID], now)
       THEN /\ callers' = [callers EXCEPT ![t] =
                  [@ EXCEPT !.pc = "done", !.hit = TRUE, !.at = now,
                            !.res = Replayed(cache[CKAN_RID])]]
            /\ UNCHANGED compute_lock
       ELSE /\ callers' = [callers EXCEPT ![t].pc = "compute"]
            /\ compute_lock' =
                  IF compute_lock.enabled
                  THEN [compute_lock EXCEPT !.holder = t] ELSE compute_lock
    /\ UNCHANGED <<now, upstream, cache, last, reportVars>>

(* data_handler.py:42-49: the body issues the request and gets resp. *)
Request(t, resp) ==
    /\ callers[t].pc = "compute"
    /\ callers' = [callers EXCEPT ![t] = [@ EXCEPT !.pc = "fetched", !.resp = resp]]
    /\ upstream' = resp
    /\ UNCHANGED <<now, cache, last, compute_lock, reportVars>>

(* data_handler.py:51-136: the rest of the body, on the thread's own       *)
(* locals.  An exception leaves the call: nothing is written, the lock is  *)
(* released.                                                               *)
Process(t) ==
    /\ callers[t].pc = "fetched"
    /\ LET res == load_and_process_data(CKAN_RID, callers[t].resp, now)
       IN  /\ callers' = [callers EXCEPT ![t] =
                 [@ EXCEPT !.pc = IF res.ret = "raise" THEN "done" ELSE "computed",
                           !.at = now, !.res = res]]
           /\ compute_lock' =
                 IF res.ret = "raise" /\ compute_lock.holder = t
                 THEN [compute_lock EXCEPT !.holder = "none"] ELSE compute_lock
    /\ UNCHANGED <<now, upstream, cache, last, reportVars>>

(* The returned value is written to the store, the lock released, and the  *)
(* call returns.                                                           *)
WriteResult(t) ==
    /\ callers[t].pc = "computed"
    /\ cache' = [cache EXCEPT ![CKAN_RID] = Stored(@, callers[t].res, now)]
    /\ callers' = [callers EXCEPT ![t].pc = "done"]
    /\ compute_lock' =
          IF compute_lock.holder = t
          THEN [compute_lock EXCEPT !.holder = "none"] ELSE compute_lock
    /\ UNCHANGED <<now, upstream, last, reportVars>>

NextConcurrent ==
    \/ Tick
    \/ \E t \in Threads :
          \/ Enter(t)
          \/ Recheck(t)
          \/ \E resp \in CacheUpstreams : Request(t, resp)
          \/ Process(t)
          \/ WriteResult(t)

SpecConcurrent == InitConcurrent /\ [][NextConcurrent]_vars

----------------------------------------------------------------------------
(* The "Submit Report" handler, app.py:182-234, and the functions it       *)
(* calls.  What the two services do is an input of a run: whether the      *)
(* upload succeeds, what the insert request answers and whether the row    *)
(* was committed, whether the deletion of the blob fails.                  *)

(* storage_handler.py:41-70: (public_url, gcs_path, None) when the blob is *)
(* uploaded, (None, None, message) when the upload raises.                 *)
upload_photo(outcome) ==
    [uploaded |-> outcome = "ok", storage_error |-> outcome # "ok"]

(* The answers of supabase.table(...).insert(...).execute(),               *)
(* db_handler.py:44-71: response.data with the report's id, response.data  *)
(* with another shape or id, no data but a count, an error, none of these, *)
(* or an exception.                                                        *)
InsertResponses ==
    {"data_match", "data_mismatch", "count", "error", "unknown", "exception"}

(* Whether the row is in the table after the request: it is when the       *)
(* service answers with data or a count, it is not when the service        *)
(* answers with an error; an answer without data, count or error, and an   *)
(* exception (a lost answer), leave both possible.                         *)
RowCommitted(response, committed) ==
    CASE response \in {"data_match", "data_mismatch", "count"} -> TRUE
      [] response = "error" -> FALSE
      [] OTHER -> committed

(* db_handler.py:47-71: the pair (inserted_id, error) by answer: line 52   *)
(* and line 58 return (report_id, None), line 55 returns (report_id,       *)
(* "Insert successful, but validation unclear."), lines 62, 66 and 71      *)
(* return (None, message).                                                 *)
insert_report(response) ==
    [inserted_id |-> response \in {"data_match", "data_mismatch", "count"},
     db_error |-> response \notin {"data_match", "count"}]

(* storage_handler.py:73-92: (True, None) when the blob existed and was    *)
(* deleted, (True, message) when it did not exist, (False, message) when   *)
(* the request raised; the blob is gone in the first case only.            *)
delete_photo(exists, fails) ==
    CASE fails -> [result |-> "failed", removed |-> FALSE, err |-> TRUE]
      [] ~fails /\ exists -> [result |-> "deleted", removed |-> TRUE, err |-> FALSE]
      [] OTHER -> [result |-> "missing", removed |-> FALSE, err |-> TRUE]

(* One click of "Submit Report" with the form complete.  The report gets a *)
(* fresh uuid4: here the next unused id.                                   *)
SubmitReport(ready, up, response, committed, del_fails) ==
    LET id == submission.n + 1
        upl == upload_photo(up)
        ins == insert_report(response)
        stored == IF upl.uploaded THEN bucket \cup {id} ELSE bucket
        del == delete_photo(id \in stored, del_fails)
        inserting == ready /\ ~upl.storage_error
        cleaning == inserting /\ ins.db_error
    IN  /\ submission.n < MaxReports
        /\ submission' =
              [n |-> IF ready THEN id ELSE submission.n,
               id |-> IF ready THEN id ELSE 0, ready |-> ready,
               upload |-> IF ready THEN up ELSE "not_called",
               insert |-> IF inserting THEN response ELSE "not_called",
               delete |-> IF cleaning THEN del.result ELSE "not_called"]
        /\ table' = IF inserting /\ RowCommitted(response, committed)
                    THEN table \cup {id} ELSE table
        /\ bucket' = IF ~ready THEN bucket
                     ELSE IF cleaning /\ del.removed THEN stored \ {id}
                     ELSE stored
        /\ UNCHANGED <<now, upstream, cache, last, threadVars, session_state,
                       admin>>

InitSubmit == Init

NextSubmit ==
    \E ready \in BOOLEAN, up \in {"ok", "error"}, response \in InsertResponses,
       committed \in BOOLEAN, del_fails \in BOOLEAN :
        SubmitReport(ready, up, response, committed, del_fails)

SpecSubmit == InitSubmit /\ [][NextSubmit]_vars

----------------------------------------------------------------------------
(* The delete flow of the admin panel, app.py:335-364.  A step is one run  *)
(* of the script, started by a widget event of the admin (a selection in   *)
(* the select box, a click on a button the previous run rendered for the   *)
(* selected report) or by st.experimental_rerun().                         *)

(* The answers of supabase.table(...).delete().eq(...).execute(),          *)
(* db_handler.py:139-166.                                                  *)
DeleteResponses == {"data", "count", "error", "unknown", "exception"}

(* db_handler.py:147-166: (True, None) on data or a count, (False,         *)
(* message) otherwise.                                                     *)
delete_report_metadata(response) ==
    [meta_deleted |-> response \in {"data", "count"},
     meta_err |-> response \notin {"data", "count"}]

(* Whether the row is gone after the request. *)
RowDeleted(response, committed) ==
    CASE response \in {"data", "count"} -> TRUE
      [] response = "error" -> FALSE
      [] OTHER -> committed

(* app.py:337-338: the flag is created False on the first rendering.       *)
InitFlag(flag) == IF flag = "absent" THEN "False" ELSE flag

DeleteWithoutConfirmation(flag, click) ==
    click \in {"YES, DELETE", "Delete Report"}

(* app.py:340-342: the "YES, DELETE" button is evaluated, and is the one   *)
(* clicked, only under a True flag.                                        *)
DeleteRequested(flag, click) == flag = "True" /\ click = "YES, DELETE"

(* app.py:346-351: delete_photo is reached on no metadata error, with a    *)
(* gcs_path in the record.                                                 *)
PhotoDeleteReached(meta_err, gcs_path) == ~meta_err /\ gcs_path

(* app.py:340-363: the buttons a run renders for the selected report.      *)
Buttons(flag) ==
    IF flag = "True" THEN {"Update Status", "YES, DELETE", "Cancel"}
    ELSE {"Update Status", "Delete Report"}

(* A run with no report selected: nothing of the delete flow is reached.   *)
RunUnselected(click) ==
    /\ admin' = [admin EXCEPT !.selected = 0, !.rendered = {}, !.click = click,
                              !.metadata = "not_called",
                              !.photo = "not_called", !.rerun = FALSE]
    /\ UNCHANGED <<table, bucket, session_state>>

(* A run with report sel selected. *)
RunSelected(sel, click, response, committed, gcs_path, del_fails) ==
    LET flag == InitFlag(session_state[sel])
        requested == DeleteRequested(flag, click)
        meta == delete_report_metadata(response)
        completed == requested /\ ~meta.meta_err
        photo_called == requested /\ PhotoDeleteReached(meta.meta_err, gcs_path)
        del == delete_photo(sel \in bucket, del_fails)
        cancelled == flag = "True" /\ ~completed /\ click = "Cancel"
        started == flag = "False" /\ click = "Delete Report"
        flag_after == IF completed \/ cancelled THEN "False"
                      ELSE IF started THEN "True" ELSE flag
    IN  /\ session_state' = [session_state EXCEPT ![sel] = flag_after]
        /\ table' = IF requested /\ RowDeleted(response, committed)
                    THEN table \ {sel} ELSE table
        /\ bucket' = IF photo_called /\ del.removed THEN bucket \ {sel}
                     ELSE bucket
        /\ admin' =
              [selected |-> sel, rendered |-> Buttons(flag), click |-> click,
               metadata |-> IF ~requested THEN "not_called"
                            ELSE IF meta.meta_err THEN "error" ELSE "deleted",
               photo |-> IF photo_called THEN del.result ELSE "not_called",
               rerun |-> completed \/ cancelled \/ started,
               armed |-> IF click = "Delete Report" THEN admin.armed \cup {sel}
                         ELSE IF click = "Cancel" \/ completed
                              THEN admin.armed \ {sel}
                         ELSE admin.armed]

(* The widget events a run can start with: after st.experimental_rerun()   *)
(* the script runs again at once with the same selection (or none, if the  *)
(* report left the list) and no click.                                     *)
RunStarts(sel, click) ==
    /\ sel \in table \cup {0}
    /\ IF admin.rerun
       THEN /\ click = "none"
            /\ sel = (IF admin.selected \in table THEN admin.selected ELSE 0)
       ELSE click \in {"none"} \cup
                      (IF sel = admin.selected THEN admin.rendered ELSE {})

AdminRun(sel, click, response, committed, gcs_path, del_fails) ==
    /\ RunStarts(sel, click)
    /\ IF sel = 0 THEN RunUnselected(click)
       ELSE RunSelected(sel, click, response, committed, gcs_path, del_fails)
    /\ UNCHANGED <<now, upstream, cache, last, threadVars, submission>>

(* The admin panel of a deployment in which every report was submitted.    *)
InitAdmin ==
    /\ now = 0
    /\ upstream = NoAnswer
    /\ cache = [r \in Rids |-> NoEntry]
    /\ last = NoCall
    /\ NoThreads
    /\ table = ReportIds
    /\ bucket = ReportIds
    /\ submission = NoSubmission
    /\ session_state = NoSessionState
    /\ admin = NoAdminRun

NextAdmin ==
    \E sel \in ReportIds \cup {0},
       click \in {"none", "Update Status", "Delete Report", "YES, DELETE", "Cancel"},
       response \in DeleteResponses, committed \in BOOLEAN,
       gcs_path \in BOOLEAN, del_fails \in BOOLEAN :
        AdminRun(sel, click, response, committed, gcs_path, del_fails)

SpecAdmin == InitAdmin /\ [][NextAdmin]_vars

----------------------------------------------------------------------------
(* Vocabulary of the properties, stated on the raw input and the outputs.  *)

(* `last` is a call that ran the function body and issued the request; in  *)
(* that state `upstream` is the answer it received.                        *)
Ran == last # NoCall /\ ~last.hit /\ last.rid # ""

IsNoneNone(res) == res.ret = "none"
IsEmptyPair(res) == res.ret = "value" /\ res.df = <<>> /\ res.heat = <<>>

ListAnswer(u) == u.kind = "ok" /\ u.shape = "list"

----------------------------------------------------------------------------
(* C1: a call that ends in a pipeline failure (the failure markers) stores *)
(* no cache entry: no entry holds the failure markers, and no call is      *)
(* answered from the store with them.                                      *)
C1_FailureIsNotCached ==
    /\ \A rid \in Rids : cache[rid].present => cache[rid].val.ret # "none"
    /\ last.hit => ~IsNoneNone(last.res)

----------------------------------------------------------------------------
(* C2, as stated: a call that finds an entry stored less than ttl ago      *)
(* returns it, and it and the call that stored the entry invoke the        *)
(* Fetcher exactly once between them; a call that finds an expired entry   *)
(* invokes the Fetcher.                                                    *)
Fetches(b) == IF b THEN 1 ELSE 0

----------------------------------------------------------------------------
(* C3: a fetch that succeeds with zero rows yields (empty dataset, []); a  *)
(* non-2xx status, a timeout, a network exception or success=false yields  *)
(* (None, None).                                                           *)
C3_EmptyIsNotFailure ==
    Ran =>
        /\ (ListAnswer(upstream) /\ upstream.records = <<>>)
              => IsEmptyPair(last.res)
        /\ upstream.kind \in {"http_error", "timeout", "network_error",
                              "not_success"}
              => IsNoneNone(last.res)

C3_Witness ==
    /\ Ran /\ upstream.kind = "http_error" /\ IsNoneNone(last.res)


----------------------------------------------------------------------------
(* The raw records of an answer, read without the pipeline.                *)

RawParses(r) == r.date.k # "bad"
(* Parsed, and created at most 90 days before t. *)
RawInWindow(r, t) == RawParses(r) /\ t - r.date.t <= 90 * 86400
(* Both coordinates coerce to a number (not NaN). *)
RawCoerces(v) == v.k \in {"num", "inf"}
RawGeoOk(r) == RawCoerces(r.lat) /\ RawCoerces(r.lon)

RawRows(u) == {u.records[i].row : i \in DOMAIN u.records}
(* The parsed timestamps are all naive or all of one zone. *)
OneZone(u) == Cardinality({r.date.k : r \in {x \in RawRows(u) : RawParses(x)}}) <= 1

RECURSIVE RawCount(_, _)
RawCount(records, r) ==
    IF records = <<>> THEN 0
    ELSE (IF Head(records).row = r THEN Head(records).n ELSE 0)
         + RawCount(Tail(records), r)

(* The rows of a returned dataset that come from the raw record r. *)
FromRaw(e, r) ==
    /\ e.created_datetime.t = r.date.t
    /\ e.created_datetime.tz = r.date.k
    /\ e.Latitude = to_numeric(r.lat)
    /\ e.Longitude = to_numeric(r.lon)

RECURSIVE DatasetCount(_, _)
DatasetCount(df, r) ==
    IF df = <<>> THEN 0
    ELSE (IF FromRaw(Head(df), r) THEN Head(df).n ELSE 0)
         + DatasetCount(Tail(df), r)

----------------------------------------------------------------------------
(* C4: an empty result arising at any stage (zero rows fetched, zero rows  *)
(* left by the window filter, zero rows left by geo validation) is the     *)
(* pair (empty dataset, []), is stored, and is served to a later call      *)
(* within the ttl without a fetch.                                         *)
EmptyAtFetch(u) == ListAnswer(u) /\ u.records = <<>>

EmptyAfterWindow(u, t) ==
    /\ ListAnswer(u) /\ u.records # <<>> /\ "Date Created" \in u.cols
    /\ OneZone(u)
    /\ \A r \in RawRows(u) : ~RawInWindow(r, t)

EmptyAfterGeo(u, t) ==
    /\ ListAnswer(u) /\ u.cols = AllCols /\ OneZone(u)
    /\ \E r \in RawRows(u) : RawInWindow(r, t)
    /\ \A r \in RawRows(u) : RawInWindow(r, t) => ~RawGeoOk(r)

C4_EmptyResultIsCached ==
    /\ (Ran /\ (\/ EmptyAtFetch(upstream)
                \/ EmptyAfterWindow(upstream, last.at)
                \/ EmptyAfterGeo(upstream, last.at)))
          => /\ IsEmptyPair(last.res)
             /\ cache[last.rid].present
             /\ cache[last.rid].at = last.at
             /\ cache[last.rid].val = [ret |-> "value", df |-> <<>>, heat |-> <<>>]
    /\ (/\ last # NoCall /\ last.found.present
        /\ last.found.val = [ret |-> "value", df |-> <<>>, heat |-> <<>>]
        /\ last.at - last.found.at < 21600)
          => last.hit /\ IsEmptyPair(last.res) /\ ~last.res.fetched

(* An empty result stored by an earlier call and served later, unfetched.  *)
C4_Witness ==
    /\ last.hit /\ last.rid = "A" /\ IsEmptyPair(last.res)
    /\ last.at > last.found.at

----------------------------------------------------------------------------
(* C5: the weight of every emitted point is min(c, 15), c the number of    *)
(* rows of the returned dataset whose tile (round(lat*500),                *)
(* round(lng*500)) is the point's tile.                                    *)
RoundedTimes500(f) ==
    IF f.c = "fin" THEN Fin(RoundHalfEven(f.v * 500, CoordScale)) ELSE f

TimesTile(f) == IF f.c = "fin" THEN Fin((f.v * 500) \div CoordScale) ELSE f

RECURSIVE RowsInTile(_, _)
RowsInTile(df, key) ==
    IF df = <<>> THEN 0
    ELSE (IF <<RoundedTimes500(Head(df).Latitude),
               RoundedTimes500(Head(df).Longitude)>> = key
          THEN Head(df).n ELSE 0)
         + RowsInTile(Tail(df), key)

PointCount(df, p) ==
    RowsInTile(df, <<TimesTile(p.location.lat), TimesTile(p.location.lng)>>)

C5_WeightIsCappedCount ==
    /\ Weight(42) = 15 /\ Weight(3) = 3
    /\ \A j \in DOMAIN last.res.heat :
          LET c == PointCount(last.res.df, last.res.heat[j])
          IN  /\ c >= 1
              /\ last.res.heat[j].weight = (IF c <= 15 THEN c ELSE 15)

(* A tile with more than 15 rows, emitted with weight 15. *)
C5_Witness ==
    \E j \in DOMAIN last.res.heat :
        /\ PointCount(last.res.df, last.res.heat[j]) > 15
        /\ last.res.heat[j].weight = 15

----------------------------------------------------------------------------
(* C6: the window filter retains a row iff its parsed timestamp is >=      *)
(* now - 90 days: each parsed record with coercible coordinates is in the  *)
(* returned dataset iff it is that recent, and the run ends with "no       *)
(* records within the last 90 days" iff no parsed record is that recent.   *)
Filtered ==
    /\ Ran /\ ListAnswer(upstream) /\ "Date Created" \in upstream.cols
    /\ OneZone(upstream)
    /\ \E r \in RawRows(upstream) : RawParses(r)

C6_WindowBoundary ==
    Filtered =>
        /\ \A r \in RawRows(upstream) :
              (upstream.cols = AllCols /\ RawParses(r) /\ RawGeoOk(r)) =>
                 (DatasetCount(last.res.df, r) > 0
                    <=> r.date.t >= last.at - 90 * 86400)
        /\ last.res.site = 95
              <=> \A r \in RawRows(upstream) :
                     RawParses(r) => r.date.t < last.at - 90 * 86400

(* A record created exactly 90 days before the call, retained. *)
C6_Witness ==
    /\ Filtered
    /\ \E r \in RawRows(upstream) :
          /\ RawParses(r) /\ last.at - r.date.t = 90 * 86400
          /\ DatasetCount(last.res.df, r) > 0

----------------------------------------------------------------------------
(* C7: a record whose timestamp does not parse or whose latitude or        *)
(* longitude does not coerce never fails the invocation: in an answer with *)
(* all the columns that holds such a record the call returns a dataset,    *)
(* and the dataset is exactly the other records that parse and lie in the  *)
(* window, each with its number of copies.                                 *)
RawGood(r, t) == RawParses(r) /\ RawInWindow(r, t) /\ RawGeoOk(r)

C7_ParseFailureDropsOnlyItsRow ==
    (/\ Ran /\ ListAnswer(upstream) /\ upstream.cols = AllCols
     /\ \E r \in RawRows(upstream) : ~RawParses(r) \/ ~RawGeoOk(r))
    => /\ last.res.ret = "value"
       /\ \A r \in RawRows(upstream) :
             DatasetCount(last.res.df, r)
                = (IF RawGood(r, last.at) THEN RawCount(upstream.records, r) ELSE 0)

----------------------------------------------------------------------------
(* C8: no row with a non-finite coordinate is in the returned dataset, and *)
(* no returned heat point has a non-finite location.                       *)
C8_NoNonFiniteCoordinate ==
    /\ \A j \in DOMAIN last.res.df :
          last.res.df[j].Latitude.c = "fin" /\ last.res.df[j].Longitude.c = "fin"
    /\ \A j \in DOMAIN last.res.heat :
          /\ last.res.heat[j].location.lat.c = "fin"
          /\ last.res.heat[j].location.lng.c = "fin"

----------------------------------------------------------------------------
(* C9: when a required column is absent from the fetched rows the call     *)
(* returns (None, None), whatever the rows hold.                           *)
C9_MissingColumnIsFatal ==
    (/\ Ran /\ ListAnswer(upstream) /\ upstream.records # <<>>
     /\ upstream.cols # AllCols)
    => IsNoneNone(last.res)

----------------------------------------------------------------------------
(* C10: every call of load_and_process_data returns; an error in a stage   *)
(* gives (None, None), never an exception at the caller.                   *)
C10_NoExceptionEscapes ==
    last # NoCall => last.res.ret \in {"none", "value"}

----------------------------------------------------------------------------
(* C11: an answer whose parsed timestamps mix timezone-naive and           *)
(* timezone-aware values does not fail the call: the call returns a        *)
(* dataset, and the window comparison is made on every row (a parsed row   *)
(* with coercible coordinates is in the dataset iff it is at most 90 days  *)
(* old).                                                                   *)
C11_MixedZonesDoNotFail ==
    (/\ Ran /\ ListAnswer(upstream) /\ upstream.cols = AllCols
     /\ ~OneZone(upstream))
    => /\ last.res.ret = "value"
       /\ \A r \in RawRows(upstream) :
             (RawParses(r) /\ RawGeoOk(r)) =>
                (DatasetCount(last.res.df, r) > 0
                   <=> r.date.t >= last.at - 90 * 86400)

----------------------------------------------------------------------------
(* C12: a call with an empty sourceId returns (None, None) and issues no   *)
(* request to the endpoint, whether it runs the function or is answered    *)
(* from the store.                                                         *)
C12_EmptyIdIsFatalWithoutQuery ==
    (last # NoCall /\ last.rid = "") =>
        /\ last.res.ret = "none" /\ last.res.df = <<>> /\ last.res.heat = <<>>
        /\ ~last.res.fetched
        /\ last.hit => ~last.found.fetched

(* A call with an empty sourceId that ran the function again after the     *)
(* expiry of the entry of an earlier such call: still no request.          *)
C12_Witness ==
    /\ last.rid = "" /\ ~last.hit /\ last.found.present
    /\ IsNoneNone(last.res) /\ ~last.res.fetched

----------------------------------------------------------------------------
(* C13: the aggregation of the validated rows does not depend on their     *)
(* order: for every reordering of the rows of the returned dataset the     *)
(* aggregation yields the same multiset of heat points (tile anchors with  *)
(* weights) as the returned list.                                          *)
Multiset(seq) ==
    [x \in {seq[i] : i \in DOMAIN seq} |->
        Cardinality({i \in DOMAIN seq : seq[i] = x})]

Reordered(df, f) == [i \in DOMAIN df |-> df[f[i]]]

C13_AggregationIgnoresRowOrder ==
    (Ran /\ last.res.ret = "value") =>
        \A f \in Permutations(DOMAIN last.res.df) :
            Multiset(Hotspots(Reordered(last.res.df, f)))
                = Multiset(last.res.heat)

(* A dataset of two tiles whose rows are interleaved: the two rows of one  *)
(* tile are separated by a row of the other.                               *)
C13_Witness ==
    /\ Ran /\ Len(last.res.heat) = 2
    /\ \E i, j, k \in DOMAIN last.res.df :
          /\ i < j /\ j < k
          /\ RoundedTimes500(last.res.df[i].Latitude)
                = RoundedTimes500(last.res.df[k].Latitude)
          /\ RoundedTimes500(last.res.df[i].Longitude)
                = RoundedTimes500(last.res.df[k].Longitude)
          /\ RoundedTimes500(last.res.df[i].Latitude)
                # RoundedTimes500(last.res.df[j].Latitude)

----------------------------------------------------------------------------
(* C14: for the three rows (37.3382, -121.8863, now - 1 day),              *)
(* (37.3383, -121.8864, now - 1 day), (40.0, -70.0, now - 200 days), in    *)
(* any order, the call returns the first two rows, both of tile            *)
(* (18669, -60943), without the third, and exactly one heat point, of      *)
(* weight 2, anchored at (37.338, -121.886).                               *)
ScenarioRow(lat, lon, days, t) ==
    [date |-> [k |-> "naive", t |-> t - days * 86400],
     lat |-> [k |-> "num", v |-> lat], lon |-> [k |-> "num", v |-> lon]]

IsScenario(u, t) ==
    /\ ListAnswer(u) /\ u.cols = AllCols /\ Len(u.records) = 3
    /\ \A i \in DOMAIN u.records : u.records[i].n = 1
    /\ RawRows(u) = {ScenarioRow(373382, -1218863, 1, t),
                     ScenarioRow(373383, -1218864, 1, t),
                     ScenarioRow(400000, -700000, 200, t)}

C14_ScenarioOnePointOfWeightTwo ==
    (Ran /\ IsScenario(upstream, last.at)) =>
        /\ last.res.ret = "value"
        /\ Len(last.res.df) = 2
        /\ \A i \in DOMAIN last.res.df :
              /\ last.res.df[i].n = 1
              /\ TileOf(last.res.df[i]) = <<Fin(18669), Fin(-60943)>>
        /\ DatasetCount(last.res.df, ScenarioRow(373382, -1218863, 1, last.at)) = 1
        /\ DatasetCount(last.res.df, ScenarioRow(373383, -1218864, 1, last.at)) = 1
        /\ DatasetCount(last.res.df, ScenarioRow(400000, -700000, 200, last.at)) = 0
        /\ last.res.heat
              = <<[location |-> [lat |-> Fin(373380), lng |-> Fin(-1218860)],
                   weight |-> 2]>>

(* The scenario, with the old row first in the answer. *)
C14_Witness ==
    /\ Ran /\ IsScenario(upstream, last.at)
    /\ upstream.records[1].row.lat.v = 400000
    /\ Len(last.res.heat) = 1 /\ last.res.heat[1].weight = 2

----------------------------------------------------------------------------
(* C15: the returned list holds exactly one heat point for each distinct   *)
(* tile key (round(lat*500), round(lng*500)) of the rows of the returned   *)
(* dataset and none for any other key, and the numbers of rows of the      *)
(* points' tiles add up to the number of rows of the dataset.              *)
TileKeys(df) ==
    {<<RoundedTimes500(df[i].Latitude), RoundedTimes500(df[i].Longitude)>> :
        i \in DOMAIN df}

PointKey(p) == <<TimesTile(p.location.lat), TimesTile(p.location.lng)>>

RECURSIVE SumOfCounts(_, _)
SumOfCounts(df, heat) ==
    IF heat = <<>> THEN 0
    ELSE PointCount(df, Head(heat)) + SumOfCounts(df, Tail(heat))

C15_OnePointPerTileCountsAddUp ==
    (Ran /\ last.res.ret = "value") =>
        /\ \A key \in TileKeys(last.res.df) :
              Cardinality({j \in DOMAIN last.res.heat :
                             PointKey(last.res.heat[j]) = key}) = 1
        /\ \A j \in DOMAIN last.res.heat :
              PointKey(last.res.heat[j]) \in TileKeys(last.res.df)
        /\ Len(last.res.heat) = Cardinality(TileKeys(last.res.df))
        /\ SumOfCounts(last.res.df, last.res.heat) = RowCount(last.res.df)

(* Two tiles, one of them with sixteen copies of one row and another row.  *)
C15_Witness ==
    /\ Ran /\ Len(last.res.heat) = 2 /\ Len(last.res.df) = 3
    /\ RowCount(last.res.df) >= 17

----------------------------------------------------------------------------
(* C16: with two sessions calling the cached function for the same         *)
(* sourceId, in every interleaving a session that has returned holds the   *)
(* pair of one whole run of the function (its own run on the answer it     *)
(* fetched, or the stored pair of the other session's run), and the entry  *)
(* in the store is the pair returned by one whole run.                     *)
HasRun(t) == callers[t].pc \in {"computed", "done"} /\ ~callers[t].hit

WholeRun(t) ==
    load_and_process_data("A", callers[t].resp, callers[t].at)

C16_NoTornCacheEntry ==
    /\ \A t \in Threads :
          callers[t].pc = "done" =>
             /\ AppPair(callers[t].res).ret \in {"none", "value"}
             /\ ~callers[t].hit => callers[t].res = WholeRun(t)
             /\ callers[t].hit =>
                   \E u \in Threads \ {t} :
                       /\ HasRun(u) /\ WholeRun(u).ret # "raise"
                       /\ Value(callers[t].res) = Value(WholeRun(u))
    /\ cache["A"].present =>
          \E u \in Threads :
              /\ HasRun(u) /\ WholeRun(u).ret # "raise"
              /\ cache["A"].val = Value(WholeRun(u))
    /\ \A rid \in Rids \ {"A"} : ~cache[rid].present

(* Both sessions ran the function (redundant fetches) with different       *)
(* results, and the store holds the non-empty pair of the second.          *)
C16_Witness ==
    /\ \A t \in Threads : callers[t].pc = "done" /\ HasRun(t)
    /\ Value(callers["s1"].res) # Value(callers["s2"].res)
    /\ callers["s1"].res.ret = "value"
    /\ cache["A"].val = Value(callers["s2"].res)
    /\ cache["A"].val.df # <<>>
    /\ callers["s1"].at = callers["s2"].at

----------------------------------------------------------------------------
(* C17: the store is keyed by sourceId: a call for one sourceId reads and  *)
(* writes only that sourceId's entry, so what it returns from the store    *)
(* was computed by a call for the same sourceId; and whatever the entries  *)
(* of the other sourceIds, a call for a non-empty sourceId whose own entry *)
(* is absent or expired issues the request.                                *)
C17_KeyedBySourceId ==
    [][last' # last =>
          /\ \A other \in Rids \ {last'.rid} : cache'[other] = cache[other]
          /\ last'.found = cache[last'.rid]
          /\ last'.hit => Value(last'.res) = cache[last'.rid].val
          /\ (/\ last'.rid # ""
              /\ ~(cache[last'.rid].present
                    /\ last'.at - cache[last'.rid].at < 21600))
                => last'.res.fetched /\ ~last'.hit]_vars

(* A call for B that issued the request and got its own result while the   *)
(* entry of A, holding another value, was live.                            *)
C17_Witness ==
    /\ last.rid = "B" /\ ~last.hit /\ last.res.fetched
    /\ cache["A"].present /\ last.at - cache["A"].at < 21600
    /\ cache["A"].val.ret = "value"
    /\ Value(last.res) # cache["A"].val

----------------------------------------------------------------------------
(* C18: every return of load_and_process_data is (None, None), or          *)
(* (empty dataset, []), or (non-empty dataset, non-empty list): with       *)
(* (None, None) there is no dataset and no list, and otherwise the list is *)
(* empty exactly when the dataset is.                                      *)
C18_ThreeReturnShapes ==
    (last # NoCall /\ last.res.ret # "raise") =>
        /\ last.res.ret \in {"none", "value"}
        /\ last.res.ret = "none" => last.res.df = <<>> /\ last.res.heat = <<>>
        /\ last.res.ret = "value" =>
              /\ (Len(last.res.heat) = 0 <=> RowCount(last.res.df) = 0)
              /\ \A i \in DOMAIN last.res.df : last.res.df[i].n >= 1
        /\ last.res.site \in {26, 56, 61, 66, 76, 86, 95, 100, 106, 115, 131, 136}

(* A returned dataset whose only row has an infinite latitude, with its    *)
(* one heat point.                                                         *)
C18_Witness ==
    /\ Ran /\ last.res.ret = "value" /\ Len(last.res.df) = 1
    /\ last.res.df[1].Latitude.c = "inf" /\ Len(last.res.heat) = 1

----------------------------------------------------------------------------
(* C19: after any run of the submission handler every report with a record *)
(* in the table has its photo in the bucket; the run called delete_photo   *)
(* only if its insert_report left no record in the table; and the run did  *)
(* not call insert_report if its upload_photo reported an error.           *)
C19_RecordOnlyWithPhoto ==
    /\ \A id \in table : id \in bucket
    /\ submission.delete # "not_called" => submission.id \notin table
    /\ submission.upload = "error" => submission.insert = "not_called"

----------------------------------------------------------------------------
(* C20: in every run of the admin panel, delete_report_metadata is called  *)
(* for a report only if the run starts with the report's confirm_delete    *)
(* flag True, the flag having been set by a "Delete Report" click that no  *)
(* "Cancel" click and no completed delete followed; and delete_photo is    *)
(* called only in a run, for that report, in which delete_report_metadata  *)
(* returned without error.                                                 *)
C20_DeleteOnlyAfterConfirmation ==
    [][/\ admin'.metadata # "not_called" =>
             /\ session_state[admin'.selected] = "True"
             /\ admin'.selected \in admin.armed
             /\ admin'.selected = admin.selected
             /\ admin'.click = "YES, DELETE"
       /\ admin'.photo # "not_called" => admin'.metadata = "deleted"]_vars

(* A confirmed delete that removed the record and then the photo. *)
C20_Witness ==
    /\ admin.click = "YES, DELETE"
    /\ admin.metadata = "deleted" /\ admin.photo = "deleted"
    /\ admin.selected \notin table /\ admin.selected \notin bucket
    /\ session_state[admin.selected] = "False"

====
